---- MODULE Spec2Model ----
(***************************************************************************)
(* Rift Runner, console simulation (src/2025_DevMain.rs).                  *)
(* The RiftRunner aggregate, the main game loop and RiftRunner::update,    *)
(* modelled as a state machine.  A HexCoord is the pair <<q, r>>; a        *)
(* HashMap is a function whose DOMAIN is its key set; a Vec is a sequence. *)
(* The iteration order of a HashMap is unspecified, so a loop over a map   *)
(* visits the remaining keys in any order.  Every rng draw is an input.    *)
(***************************************************************************)
EXTENDS Integers, Sequences, FiniteSets, TLC

\* ---------------------------------------------------------------- bounds
\* A run is explored for as long as the game goes on, with a budget on its
\* events; once the budget is spent every input takes its plain value (the
\* player types lines that are no command, the draw comes out false).
\* An event is a command ("p q r", "w q r", "t q r", "core") typed, an
\* iteration of the main loop in which the gen_bool(0.7) spawn event fires, or
\* a step of update in which a gen_bool draw of probability below 1 comes out
\* true.
MaxEvents == 2
\* HexCoord methods are called on their own with q and r in -MaxCoord..MaxCoord
MaxCoord == 2

\* -------------------------------------------------------------- helpers
Abs(x) == IF x < 0 THEN -x ELSE x

Range(s) == {s[i] : i \in DOMAIN s}

\* HashMap::insert / HashMap::remove
Insert(m, k, v) == [x \in (DOMAIN m) \cup {k} |-> IF x = k THEN v ELSE m[x]]

Remove(m, k) == [x \in (DOMAIN m) \ {k} |-> m[x]]

EmptyMap == [x \in {} |-> 0]

\* rng.gen_range(lo..=hi): a draw is explored at both ends of its range
gen_range(lo, hi) == {x \in lo..hi : x = lo \/ x = hi}

\* ------------------------------------------------------------- HexCoord
HexCoord(q, r) == <<q, r>>

\* distance without .abs() on its third term
distance_signed(a, b) ==
    (Abs(a[1] - b[1]) + Abs(a[2] - b[2]) + (a[1] + a[2] - b[1] - b[2])) \div 2

distance(a, b) ==
    (Abs(a[1] - b[1]) + Abs(a[2] - b[2]) + Abs(a[1] + a[2] - b[1] - b[2])) \div 2

\* neighbors with (q + 1, r + 1) as its fifth entry
neighbors_diagonal(c) ==
    << HexCoord(c[1] + 1, c[2]),
       HexCoord(c[1] - 1, c[2]),
       HexCoord(c[1], c[2] + 1),
       HexCoord(c[1], c[2] - 1),
       HexCoord(c[1] + 1, c[2] + 1),
       HexCoord(c[1] - 1, c[2] + 1) >>

neighbors(c) ==
    << HexCoord(c[1] + 1, c[2]),
       HexCoord(c[1] - 1, c[2]),
       HexCoord(c[1], c[2] + 1),
       HexCoord(c[1], c[2] - 1),
       HexCoord(c[1] + 1, c[2] - 1),
       HexCoord(c[1] - 1, c[2] + 1) >>

\* --------------------------------------------------------------- Planet
\* the match on cycle with its first arm reaching one cycle further
FoeType_late(c) ==
    IF c >= 1 /\ c <= 6 THEN "Gloopers"
    ELSE IF c >= 7 /\ c <= 10 THEN "Staregazers"
    ELSE "Eyekings"

\* the match on cycle in Planet::new
FoeType(c) ==
    IF c >= 1 /\ c <= 5 THEN "Gloopers"
    ELSE IF c >= 6 /\ c <= 10 THEN "Staregazers"
    ELSE "Eyekings"

\* Planet::new(cycle, center); roll is the draw rng.gen_range(1..=3)
PlanetNew(c, center, roll) ==
    [ center       |-> center,
      hexes        |-> << center,
                          HexCoord(center[1] + 1, center[2]),
                          HexCoord(center[1] - 1, center[2]),
                          HexCoord(center[1], center[2] + 1),
                          HexCoord(center[1], center[2] - 1),
                          HexCoord(center[1] + 1, center[2] - 1),
                          HexCoord(center[1] - 1, center[2] + 1) >>,
      foe_type     |-> FoeType(c),
      foe_strength |-> c * roll ]

contains(planet, coord) == \E i \in DOMAIN planet.hexes : planet.hexes[i] = coord

\* ---------------------------------------------------------------- state
VARIABLES
    fields,            \* HashMap<HexCoord, i32>: 1 = pulse, 3 = weave, 4 = temporal
    ethereals,         \* HashMap<HexCoord, i32>: essence
    stasis_fields,     \* HashMap<HexCoord, bool>, kept as its key set
    planets,           \* Vec<Planet>
    current_planet,    \* usize, 0-based index into planets
    core_shard,
    rift_energy,
    cycle,
    foes_dissolved,
    core_slowed,
    pc,                \* position in main / update
    commands,          \* commands typed so far
    spawns,            \* spawn events of the main loop so far
    luck,              \* steps of update so far in which a gen_bool came out true
    intent,            \* the command read in this iteration and its cost draw
    field_iter,        \* update: keys of fields not yet visited by the field loop
    eth_iter,          \* update: keys of ethereals not yet visited by the hostile loop
    to_remove,         \* update: Vec<HexCoord>
    fields_to_corrode, \* update: Vec<HexCoord>
    ethereal_moves,    \* update: Vec<(from, to, essence)>
    pulse_radius,      \* update: radius drawn by the pulse field visited last, 0 if none
    entropy_core,      \* an EntropyCore played on its own: quanta, last input, last return
    hex_call           \* HexCoord methods called on their own: arguments and results

game == <<fields, ethereals, stasis_fields, planets, current_planet, core_shard,
          rift_energy, cycle, foes_dissolved, core_slowed>>

locals == <<field_iter, eth_iter, to_remove, fields_to_corrode, ethereal_moves,
            pulse_radius>>

vars == <<fields, ethereals, stasis_fields, planets, current_planet, core_shard,
          rift_energy, cycle, foes_dissolved, core_slowed, pc, commands, spawns, luck,
          intent,
          field_iter, eth_iter, to_remove, fields_to_corrode, ethereal_moves,
          pulse_radius, entropy_core, hex_call>>

\* the state used only when EntropyCore or HexCoord is exercised on its own
units == <<entropy_core, hex_call>>

\* no EntropyCore is being played / no HexCoord method is being called
NoCore == [quanta |-> << >>, input |-> [kind |-> "none", idx1 |-> 5, idx2 |-> 5],
           energy |-> 0]

NoCall == [a |-> HexCoord(0, 0), b |-> HexCoord(0, 0), dist_ab |-> 0, dist_ba |-> 0,
           dist_aa |-> 0, nbrs |-> << >>]

Planet == planets[current_planet + 1]

is_on_planet(coord) == contains(planets[current_planet + 1], coord)

\* energy is rift_energy when the command was read
NoIntent == [op |-> "none", q |-> 0, r |-> 0, field_type |-> 0, cost |-> 0, energy |-> 0]

\* RiftRunner::new and the locals of main before the first iteration
Init ==
    /\ fields = EmptyMap
    /\ ethereals = EmptyMap
    /\ stasis_fields = {}
    /\ \E roll \in gen_range(1, 3) : planets = << PlanetNew(1, HexCoord(0, 0), roll) >>
    /\ current_planet = 0
    /\ core_shard = HexCoord(0, 0)
    /\ rift_energy = 50
    /\ cycle = 1
    /\ foes_dissolved = 0
    /\ core_slowed = FALSE
    /\ pc = "loop"
    /\ commands = 0
    /\ spawns = 0
    /\ luck = 0
    /\ intent = NoIntent
    /\ field_iter = {}
    /\ eth_iter = {}
    /\ to_remove = << >>
    /\ fields_to_corrode = << >>
    /\ ethereal_moves = << >>
    /\ pulse_radius = 0
    /\ entropy_core = NoCore
    /\ hex_call = NoCall

\* ------------------------------------------------------ player intents
\* get_field_cost without the cycle scaling
get_field_cost_flat(field_type) ==
    CASE field_type = 1 -> {15 + j : j \in gen_range(-3, 3)}
      [] field_type = 3 -> {40 + j : j \in gen_range(-4, 4)}
      [] field_type = 4 -> {55 + j : j \in gen_range(-5, 5)}
      [] OTHER -> {0}

\* get_field_cost: the costs the call can return, one per jitter draw
get_field_cost(field_type) ==
    CASE field_type = 1 -> {15 + cycle * 2 + j : j \in gen_range(-3, 3)}
      [] field_type = 3 -> {40 + cycle * 5 + j : j \in gen_range(-4, 4)}
      [] field_type = 4 -> {55 + cycle * 8 + j : j \in gen_range(-5, 5)}
      [] OTHER -> {0}

\* deploy_field without the is_on_planet test
deploy_field_anywhere(q, r, field_type, cost) ==
    LET coord == HexCoord(q, r) IN
    IF rift_energy >= cost /\ coord \notin DOMAIN fields
    THEN /\ fields' = Insert(fields, coord, field_type)
         /\ rift_energy' = rift_energy - cost
    ELSE UNCHANGED <<fields, rift_energy>>

\* deploy_field debiting the cost before it validates the deployment
deploy_field_debit_first(q, r, field_type, cost) ==
    LET coord == HexCoord(q, r) IN
    IF rift_energy >= cost /\ coord \notin DOMAIN fields /\ is_on_planet(coord)
    THEN /\ fields' = Insert(fields, coord, field_type)
         /\ rift_energy' = rift_energy - cost
    ELSE /\ fields' = fields
         /\ rift_energy' = rift_energy - cost

\* deploy_field without the test of rift_energy against the cost
deploy_field_on_credit(q, r, field_type, cost) ==
    LET coord == HexCoord(q, r) IN
    IF coord \notin DOMAIN fields /\ is_on_planet(coord)
    THEN /\ fields' = Insert(fields, coord, field_type)
         /\ rift_energy' = rift_energy - cost
    ELSE UNCHANGED <<fields, rift_energy>>

\* deploy_field(q, r, field_type) with the cost its get_field_cost call drew
deploy_field(q, r, field_type, cost) ==
    LET coord == HexCoord(q, r) IN
    IF rift_energy >= cost /\ coord \notin DOMAIN fields /\ is_on_planet(coord)
    THEN /\ fields' = Insert(fields, coord, field_type)
         /\ rift_energy' = rift_energy - cost
    ELSE UNCHANGED <<fields, rift_energy>>

\* add_rift_energy(energy)
add_rift_energy(energy) == rift_energy' = rift_energy + energy

\* the loss test against the planet's center instead of the core shard
is_game_over_center == Planet.center \in DOMAIN ethereals

\* is_game_over
is_game_over == core_shard \in DOMAIN ethereals


\* rng.gen_bool(num / den): the outcomes the draw can have (den > 0);
\* the call panics when num > den
gen_bool(num, den) ==
    IF num >= den THEN {TRUE} ELSE IF num <= 0 THEN {FALSE} ELSE BOOLEAN

\* the events of the run so far
events == commands + spawns + luck

\* a gen_bool draw inside update
chance(num, den) ==
    IF events < MaxEvents THEN gen_bool(num, den) ELSE gen_bool(num, den) \ {TRUE}

Lucky(lucky) == luck' = IF lucky THEN luck + 1 ELSE luck

budgets == <<commands, spawns, luck>>

\* ------------------------------------------------------- spawn_ethereal
\* spawn_chance = 0.6 + cycle / 15.0, in fifteenths
spawn_chance == 9 + cycle

\* the occupancy test without its comparison with the core shard
SpawnFree_core(eth, hex) ==
    hex \notin DOMAIN fields /\ hex \notin DOMAIN eth

\* the occupancy test of both spawns, against the hostile map eth
SpawnFree(eth, hex) ==
    hex \notin DOMAIN fields /\ hex \notin DOMAIN eth /\ hex # core_shard

\* the main spawn: the for loop over planet.hexes from position i on
RECURSIVE SpawnScan(_, _)
SpawnScan(i, eth) ==
    IF i > Len(Planet.hexes) THEN {eth}
    ELSE LET hex == Planet.hexes[i] IN
         (IF TRUE \in gen_bool(spawn_chance, 15) /\ SpawnFree(eth, hex)
          THEN {Insert(eth, hex, Planet.foe_strength + k) : k \in gen_range(0, cycle - 1)}
          ELSE {})
         \cup
         (IF FALSE \in gen_bool(spawn_chance, 15) \/ ~SpawnFree(eth, hex)
          THEN SpawnScan(i + 1, eth)
          ELSE {})

\* the jumpscare spawn without its test of the planet's foe_type
Jumpscare_gloopers(eth) ==
    {eth} \cup
    { IF SpawnFree(eth, Planet.hexes[i + 1])
      THEN Insert(eth, Planet.hexes[i + 1], Planet.foe_strength + k)
      ELSE eth : i \in gen_range(0, Len(Planet.hexes) - 1), k \in gen_range(1, 3) }

\* the jumpscare spawn
Jumpscare(eth) ==
    IF Planet.foe_type # "Gloopers"
    THEN {eth} \cup
         { IF SpawnFree(eth, Planet.hexes[i + 1])
           THEN Insert(eth, Planet.hexes[i + 1], Planet.foe_strength + k)
           ELSE eth : i \in gen_range(0, Len(Planet.hexes) - 1), k \in gen_range(1, 3) }
    ELSE {eth}

\* spawn_ethereal: the hostile maps the call can leave, or a fault when the
\* first gen_bool(spawn_chance) is handed a probability above 1
spawn_ethereal ==
    IF spawn_chance > 15
    THEN {[fault |-> TRUE, ethereals |-> ethereals]}
    ELSE {[fault |-> FALSE, ethereals |-> e2] :
             e2 \in UNION {Jumpscare(e1) : e1 \in SpawnScan(1, ethereals)}}

\* ---------------------------------------------------------- EntropyCore
Types == {"alpha", "beta", "gamma", "delta", "omega"}

\* EntropyCore::new
EntropyCoreNew == [1..5 -> Types]

\* the two indices a line of input parses to (5 = not a number)
Indices == 0..5

\* play without the idx1 != idx2 test
play_same_index(quanta, idx1, idx2) ==
    IF idx1 < 5 /\ idx2 < 5 /\ quanta[idx1 + 1] = quanta[idx2 + 1]
    THEN {[quanta |-> [quanta EXCEPT ![idx1 + 1] = "XX", ![idx2 + 1] = "XX"],
           energy |-> energy + bonus] :
             energy \in gen_range(3, 7), bonus \in {0} \cup gen_range(1, 4)}
    ELSE {[quanta |-> quanta, energy |-> 0]}

\* EntropyCore::play on the input "idx1 idx2"
play(quanta, idx1, idx2) ==
    IF idx1 < 5 /\ idx2 < 5 /\ idx1 # idx2 /\ quanta[idx1 + 1] = quanta[idx2 + 1]
    THEN {[quanta |-> [quanta EXCEPT ![idx1 + 1] = "XX", ![idx2 + 1] = "XX"],
           energy |-> energy + bonus] :
             energy \in gen_range(3, 7), bonus \in {0} \cup gen_range(1, 4)}
    ELSE {[quanta |-> quanta, energy |-> 0]}

\* what the one play of a fresh EntropyCore in main can return
\* ("skip" and a malformed line return 0)
PlayReturns ==
    {0} \cup UNION { {res.energy : res \in play(q0, i, j)} :
                        q0 \in EntropyCoreNew, i \in Indices, j \in Indices }

\* ------------------------------------------------------------ main loop
\* while !runner.is_game_over() -- the loop ends; "Game Over" is printed
GameOver ==
    /\ pc = "loop"
    /\ is_game_over
    /\ pc' = "game_over"
    /\ UNCHANGED <<game, locals, budgets, intent>>
    /\ UNCHANGED units

\* head of an iteration: display, then the spawn event on gen_bool(0.7)
LoopHead ==
    /\ pc = "loop"
    /\ ~is_game_over
    /\ \E event \in (IF events < MaxEvents THEN gen_bool(7, 10) ELSE {FALSE}) :
          IF event
          THEN /\ \E o \in spawn_ethereal :
                     /\ ethereals' = o.ethereals
                     /\ pc' = IF o.fault THEN "panic" ELSE "command"
               /\ spawns' = spawns + 1
          ELSE /\ ethereals' = ethereals
               /\ pc' = "command"
               /\ spawns' = spawns
    /\ UNCHANGED <<fields, stasis_fields, planets, current_planet, core_shard,
                   rift_energy, cycle, foes_dissolved, core_slowed, locals, intent,
                   commands, luck>>
    /\ UNCHANGED units

\* coordinates a deploy command is tried with: the planet and one hex off it
DeployCoords ==
    Range(Planet.hexes)
    \cup {HexCoord(Planet.center[1] + 2, Planet.center[2])}

\* "quit"
Quit ==
    /\ pc = "command"
    /\ pc' = "quit"
    /\ UNCHANGED <<game, locals, budgets, intent>>
    /\ UNCHANGED units

\* "core": a fresh EntropyCore is played once and its return credited
CoreCmd ==
    /\ pc = "command"
    /\ events < MaxEvents
    /\ commands' = commands + 1
    /\ \E energy \in PlayReturns : add_rift_energy(energy)
    /\ intent' = [NoIntent EXCEPT !.op = "core", !.energy = rift_energy]
    /\ pc' = "core"
    /\ UNCHANGED <<fields, ethereals, stasis_fields, planets, current_planet,
                   core_shard, cycle, foes_dissolved, core_slowed, locals, spawns, luck>>
    /\ UNCHANGED units

\* "p q r" / "w q r" / "t q r"
DeployCmd ==
    /\ pc = "command"
    /\ events < MaxEvents
    /\ commands' = commands + 1
    /\ \E coord \in DeployCoords, field_type \in {1, 3, 4} :
          \E cost \in get_field_cost(field_type) :
             /\ deploy_field(coord[1], coord[2], field_type, cost)
             /\ intent' = [op |-> "deploy", q |-> coord[1], r |-> coord[2],
                           field_type |-> field_type, cost |-> cost,
                           energy |-> rift_energy]
    /\ pc' = "core"
    /\ UNCHANGED <<ethereals, stasis_fields, planets, current_planet, core_shard,
                   cycle, foes_dissolved, core_slowed, locals, spawns, luck>>
    /\ UNCHANGED units

\* any other line: "Invalid command" / "Invalid field type" / "Invalid coordinates"
InvalidCmd ==
    /\ pc = "command"
    /\ intent' = [NoIntent EXCEPT !.op = "invalid", !.energy = rift_energy]
    /\ pc' = "core"
    /\ UNCHANGED <<game, locals, budgets>>
    /\ UNCHANGED units


\* -------------------------------------------- update: core shard movement
\* the filter of valid_moves without its test of the planet
CoreValid_planet(n) ==
    n \notin DOMAIN fields /\ n \notin DOMAIN ethereals

\* the filter of valid_moves without its test of the hostile map
CoreValid_hostile(n) ==
    is_on_planet(n) /\ n \notin DOMAIN fields

\* the filter of valid_moves
CoreValid(n) ==
    is_on_planet(n) /\ n \notin DOMAIN fields /\ n \notin DOMAIN ethereals

UpdateCore ==
    /\ pc = "core"
    /\ \E go \in chance(3, 10), wear \in chance(1, 2) :
          LET valid_moves == SelectSeq(neighbors(core_shard), CoreValid) IN
          IF ~core_slowed /\ go
          THEN /\ IF valid_moves # << >>
                  THEN \E i \in gen_range(0, Len(valid_moves) - 1) :
                          core_shard' = valid_moves[i + 1]
                  ELSE core_shard' = core_shard
               /\ core_slowed' = core_slowed
               /\ Lucky(TRUE)
          ELSE IF core_slowed /\ wear
               THEN core_slowed' = FALSE /\ core_shard' = core_shard /\ Lucky(TRUE)
               ELSE UNCHANGED <<core_shard, core_slowed, luck>>
    /\ field_iter' = DOMAIN fields
    /\ to_remove' = << >>
    /\ fields_to_corrode' = << >>
    /\ intent' = NoIntent
    /\ pc' = "fields"
    /\ UNCHANGED <<fields, ethereals, stasis_fields, planets, current_planet,
                   rift_energy, cycle, foes_dissolved, eth_iter, ethereal_moves,
                   pulse_radius, commands, spawns>>
    /\ UNCHANGED units

\* ------------------------------------------------ update: field actions
\* what one visit of the field loop leaves of the state it can write
FieldKeep ==
    [ethereals |-> ethereals, to_remove |-> to_remove,
     rift_energy |-> rift_energy, stasis_fields |-> stasis_fields, lucky |-> FALSE,
     radius |-> 0]

\* hostiles a pulse field at coord reaches with the radius it drew
PulseHit(coord, radius) ==
    {n \in Range(neighbors(coord)) :
        n \in DOMAIN ethereals /\ distance(n, coord) <= radius}

\* field_type 1
PulseField(coord) ==
    UNION { { LET hurt == [e \in DOMAIN ethereals |->
                             IF e \in PulseHit(coord, radius)
                             THEN ethereals[e] - damage[e] ELSE ethereals[e]]
                  Dead(n) == n \in PulseHit(coord, radius) /\ hurt[n] <= 0
              IN [FieldKeep EXCEPT
                     !.ethereals = hurt,
                     !.radius = radius,
                     !.to_remove = to_remove \o SelectSeq(neighbors(coord), Dead)] :
              damage \in [PulseHit(coord, radius) -> gen_range(1, 4)] } :
            radius \in gen_range(1, 2) }

\* the weave loop over planet.hexes from position i on: the hex it disrupts
\* (as a one-element sequence), or none
RECURSIVE WeaveScan(_)
WeaveScan(i) ==
    IF i > Len(Planet.hexes) THEN {<< >>}
    ELSE LET hex == Planet.hexes[i] IN
         (IF hex \in DOMAIN ethereals /\ TRUE \in gen_bool(3, 10)
          THEN {<<hex>>} ELSE {})
         \cup
         (IF hex \notin DOMAIN ethereals \/ FALSE \in gen_bool(3, 10)
          THEN WeaveScan(i + 1) ELSE {})

WeaveDisrupt(keep, target) ==
    IF target = << >> THEN keep
    ELSE LET hex == target[1]
             essence == keep.ethereals[hex] - 1
         IN [keep EXCEPT
                !.ethereals = Insert(keep.ethereals, hex, essence),
                !.to_remove = IF essence <= 0 THEN Append(keep.to_remove, hex)
                              ELSE keep.to_remove]

\* field_type 3
WeaveField(coord) ==
    UNION { IF wove
            THEN UNION { LET keep == [FieldKeep EXCEPT !.rift_energy = rift_energy + energy,
                                                       !.lucky = TRUE]
                         IN UNION { IF disrupt
                                    THEN {WeaveDisrupt(keep, t) : t \in WeaveScan(1)}
                                    ELSE {keep} : disrupt \in gen_bool(45, 100) } :
                         energy \in gen_range(10, 25) }
            ELSE {FieldKeep} : wove \in chance(4, 10) }

\* the destination test without its test of the planet
ShiftValid_planet(dest) ==
    dest \notin DOMAIN fields /\ dest \notin DOMAIN ethereals

\* the destination test of a temporal relocation
ShiftValid(dest) ==
    is_on_planet(dest) /\ dest \notin DOMAIN fields /\ dest \notin DOMAIN ethereals

\* hostiles the temporal loop considers
ShiftRange(coord) == {e \in DOMAIN ethereals : distance(e, coord) <= 2}

\* the relocations the loop over ethereals can end with: it visits the map in
\* any order, draws one neighbor per hostile in range and stops at the first
\* valid draw, so any hostile in range can be the one relocated
Shifts(coord) ==
    {m \in UNION { {<<e, neighbors(e)[i + 1]>> : i \in gen_range(0, 5)} : e \in ShiftRange(coord) } :
        ShiftValid(m[2])}

\* moved stays false when every hostile in range drew an invalid neighbor
ShiftCanMiss(coord) ==
    \A e \in ShiftRange(coord) : \E i \in gen_range(0, 5) : ~ShiftValid(neighbors(e)[i + 1])

\* the stasis loop over the field's neighbors from position i on
RECURSIVE StasisScan(_, _)
StasisScan(coord, i) ==
    IF i > 6 THEN stasis_fields
    ELSE LET n == neighbors(coord)[i] IN
         IF is_on_planet(n) /\ n \notin stasis_fields
         THEN stasis_fields \cup {n}
         ELSE StasisScan(coord, i + 1)

\* field_type 4
TemporalField(coord) ==
    UNION { IF twist
            THEN { [FieldKeep EXCEPT
                      !.ethereals = Insert(Remove(ethereals, m[1]), m[2], ethereals[m[1]]),
                      !.lucky = TRUE] :
                   m \in Shifts(coord) }
                 \cup
                 (IF ShiftCanMiss(coord)
                  THEN { IF stasis
                         THEN [FieldKeep EXCEPT !.stasis_fields = StasisScan(coord, 1),
                                                !.lucky = TRUE]
                         ELSE [FieldKeep EXCEPT !.lucky = TRUE] :
                         stasis \in gen_bool(2, 10) }
                  ELSE {})
            ELSE {FieldKeep} : twist \in chance(3, 10) }

\* one iteration of  for (coord, field_type) in &self.fields
UpdateField ==
    /\ pc = "fields"
    /\ field_iter # {}
    /\ \E coord \in field_iter :
          /\ field_iter' = field_iter \ {coord}
          /\ \E o \in (CASE fields[coord] = 1 -> PulseField(coord)
                         [] fields[coord] = 3 -> WeaveField(coord)
                         [] fields[coord] = 4 -> TemporalField(coord)
                         [] OTHER -> {FieldKeep}) :
                /\ ethereals' = o.ethereals
                /\ to_remove' = o.to_remove
                /\ rift_energy' = o.rift_energy
                /\ stasis_fields' = o.stasis_fields
                /\ Lucky(o.lucky)
                /\ pulse_radius' = o.radius
    /\ UNCHANGED <<fields, planets, current_planet, core_shard, cycle, foes_dissolved,
                   core_slowed, pc, commands, spawns, intent, eth_iter,
                   fields_to_corrode, ethereal_moves>>
    /\ UNCHANGED units

\* for coord in to_remove { remove; foes_dissolved += 1 }
RemoveAll(eth, coords) == [x \in (DOMAIN eth) \ Range(coords) |-> eth[x]]

\* the counter assigned instead of incremented
CountDissolved_assign(count, coords) == Len(coords)

\* foes_dissolved after the loop: one increment per queue entry
CountDissolved(count, coords) == count + Len(coords)

UpdateRemove ==
    /\ pc = "fields"
    /\ field_iter = {}
    /\ ethereals' = RemoveAll(ethereals, to_remove)
    /\ foes_dissolved' = CountDissolved(foes_dissolved, to_remove)
    /\ to_remove' = << >>
    /\ eth_iter' = DOMAIN ethereals'
    /\ ethereal_moves' = << >>
    /\ pulse_radius' = 0
    /\ pc' = "ethereals"
    /\ UNCHANGED <<fields, stasis_fields, planets, current_planet, core_shard,
                   rift_energy, cycle, core_slowed, budgets, intent, field_iter,
                   fields_to_corrode>>
    /\ UNCHANGED units


\* ---------------------------------------------- update: ethereal actions
\* the acid-spit loop over the hostile's neighbors from position i on
RECURSIVE AcidScan(_, _)
AcidScan(coord, i) ==
    IF i > 6 THEN {[slowed |-> FALSE, corrode |-> << >>]}
    ELSE LET target == neighbors(coord)[i] IN
         IF target = core_shard
         THEN {[slowed |-> TRUE, corrode |-> << >>]}
         ELSE (IF target \in DOMAIN fields /\ TRUE \in gen_bool(3, 10)
               THEN {[slowed |-> FALSE, corrode |-> <<target>>]} ELSE {})
              \cup
              (IF target \notin DOMAIN fields \/ FALSE \in gen_bool(3, 10)
               THEN AcidScan(coord, i + 1) ELSE {})

\* the test of the movement loop taking a neighbor as far as the best so far
Closer_ties(n, min_dist) ==
    is_on_planet(n) /\ n \notin DOMAIN fields /\ distance(n, core_shard) <= min_dist

\* the test of the movement loop reading the field map as if the corrosions
\* queued so far in the scan were already applied
Closer_corroded(n, min_dist) ==
    /\ is_on_planet(n)
    /\ n \notin (DOMAIN fields) \ Range(fields_to_corrode)
    /\ distance(n, core_shard) < min_dist

\* the test of the movement loop: n is open and closer than the best so far
Closer(n, min_dist) ==
    is_on_planet(n) /\ n \notin DOMAIN fields /\ distance(n, core_shard) < min_dist

\* the movement loop over the hostile's neighbors from position i on
RECURSIVE MoveScan(_, _, _, _)
MoveScan(coord, i, next, min_dist) ==
    IF i > 6 THEN next
    ELSE LET n == neighbors(coord)[i] IN
         IF Closer(n, min_dist)
         THEN MoveScan(coord, i + 1, n, distance(n, core_shard))
         ELSE MoveScan(coord, i + 1, next, min_dist)

\* if next != *coord { ... } with the marker left in place when it blocks
Entry_keep_marker(coord, next) ==
    IF next # coord /\ next \notin stasis_fields /\ next \notin DOMAIN ethereals
    THEN [stasis_fields |-> stasis_fields,
          ethereal_moves |-> Append(ethereal_moves,
                                    [from |-> coord, to |-> next,
                                     essence |-> ethereals[coord]])]
    ELSE [stasis_fields |-> stasis_fields, ethereal_moves |-> ethereal_moves]

\* if next != *coord { ... }: the markers and the queue after the hostile at
\* coord has tried to enter next
Entry(coord, next) ==
    IF next = coord
    THEN [stasis_fields |-> stasis_fields, ethereal_moves |-> ethereal_moves]
    ELSE IF next \in stasis_fields
         THEN [stasis_fields |-> stasis_fields \ {next}, ethereal_moves |-> ethereal_moves]
         ELSE IF next \notin DOMAIN ethereals
              THEN [stasis_fields |-> stasis_fields,
                    ethereal_moves |-> Append(ethereal_moves,
                                              [from |-> coord, to |-> next,
                                               essence |-> ethereals[coord]])]
              ELSE [stasis_fields |-> stasis_fields, ethereal_moves |-> ethereal_moves]

\* one iteration of  for (coord, essence) in &self.ethereals
UpdateEthereal ==
    /\ pc = "ethereals"
    /\ eth_iter # {}
    /\ \E coord \in eth_iter :
          /\ eth_iter' = eth_iter \ {coord}
          /\ \E distracted \in gen_bool(1, 2), spit \in chance(1, 4) :
                IF (Planet.foe_type # "Staregazers" \/ distracted) /\ spit
                THEN /\ \E acid \in AcidScan(coord, 1) :
                           /\ core_slowed' = (core_slowed \/ acid.slowed)
                           /\ fields_to_corrode' = fields_to_corrode \o acid.corrode
                     /\ Lucky(TRUE)
                ELSE UNCHANGED <<core_slowed, fields_to_corrode, luck>>
          /\ LET entry == Entry(coord, MoveScan(coord, 1, coord,
                                                 distance(coord, core_shard))) IN
             /\ stasis_fields' = entry.stasis_fields
             /\ ethereal_moves' = entry.ethereal_moves
    /\ UNCHANGED <<fields, ethereals, planets, current_planet, core_shard, rift_energy,
                   cycle, foes_dissolved, pc, commands, spawns, intent, field_iter,
                   to_remove, pulse_radius>>
    /\ UNCHANGED units

\* for (from, to, essence) in ethereal_moves { remove(from); insert(to, essence) }
RECURSIVE ApplyMoves(_, _)
ApplyMoves(eth, moves) ==
    IF moves = << >> THEN eth
    ELSE ApplyMoves(Insert(Remove(eth, Head(moves).from), Head(moves).to,
                           Head(moves).essence),
                    Tail(moves))

\* the corrosion loop emptying the field map once a field is queued
Corrode_all(fs, coords) == IF coords = << >> THEN fs ELSE EmptyMap

\* for coord in fields_to_corrode { fields.remove(coord) }
Corrode(fs, coords) == [x \in (DOMAIN fs) \ Range(coords) |-> fs[x]]

UpdateMoves ==
    /\ pc = "ethereals"
    /\ eth_iter = {}
    /\ ethereals' = ApplyMoves(ethereals, ethereal_moves)
    /\ fields' = Corrode(fields, fields_to_corrode)
    /\ ethereal_moves' = << >>
    /\ fields_to_corrode' = << >>
    /\ pc' = "effect"
    /\ UNCHANGED <<stasis_fields, planets, current_planet, core_shard, rift_energy,
                   cycle, foes_dissolved, core_slowed, budgets, intent, field_iter,
                   eth_iter, to_remove, pulse_radius>>
    /\ UNCHANGED units

\* ------------------------------------------------- update: planet effect
EffectKeep ==
    [fields |-> fields, ethereals |-> ethereals, rift_energy |-> rift_energy,
     fault |-> FALSE, lucky |-> FALSE]

EffectSpawn == {[EffectKeep EXCEPT !.ethereals = o.ethereals, !.fault = o.fault,
                                   !.lucky = TRUE] :
                   o \in spawn_ethereal}

\* "Gloopers"
GloopersEffect ==
    UNION { IF gift
            THEN {[EffectKeep EXCEPT !.rift_energy = rift_energy + boost,
                                     !.lucky = TRUE] :
                     boost \in gen_range(10, 20)}
            ELSE {EffectKeep} : gift \in chance(2, 10) }

\* the destination test of the Staregazers field shift
ShadowValid(dest) ==
    is_on_planet(dest) /\ dest \notin DOMAIN fields /\ dest \notin DOMAIN ethereals

\* the loop over fields.clone() visits the fields in any order, draws one
\* neighbor per field and stops at the first valid draw
ShadowShifts ==
    {m \in UNION { {<<f, neighbors(f)[i + 1]>> : i \in gen_range(0, 5)} : f \in DOMAIN fields } :
        ShadowValid(m[2])}

ShadowCanMiss ==
    \A f \in DOMAIN fields : \E i \in gen_range(0, 5) : ~ShadowValid(neighbors(f)[i + 1])

\* "Staregazers"
StaregazersEffect ==
    UNION { IF shadows
            THEN {[EffectKeep EXCEPT
                      !.fields = Insert(Remove(fields, m[1]), m[2], fields[m[1]]),
                      !.lucky = TRUE] :
                     m \in ShadowShifts}
                 \cup (IF ShadowCanMiss THEN EffectSpawn ELSE {})
            ELSE {EffectKeep} : shadows \in chance(15, 100) }

\* "Eyekings"
EyekingsEffect ==
    UNION { IF threat THEN EffectSpawn ELSE {EffectKeep} : threat \in chance(25, 100) }

\* match planet.foe_type.as_str()
UpdateEffect ==
    /\ pc = "effect"
    /\ \E o \in (CASE Planet.foe_type = "Gloopers" -> GloopersEffect
                   [] Planet.foe_type = "Staregazers" -> StaregazersEffect
                   [] Planet.foe_type = "Eyekings" -> EyekingsEffect
                   [] OTHER -> {EffectKeep}) :
          /\ fields' = o.fields
          /\ ethereals' = o.ethereals
          /\ rift_energy' = o.rift_energy
          /\ pc' = IF o.fault THEN "panic" ELSE "progress"
          /\ Lucky(o.lucky)
    /\ UNCHANGED <<stasis_fields, planets, current_planet, core_shard, cycle,
                   foes_dissolved, core_slowed, commands, spawns, intent, locals>>
    /\ UNCHANGED units

\* ------------------------------------------------------------ progression
\* jump_to_next_planet creating a planet only when the index is beyond the
\* list's length
jump_to_next_planet_late_push(c, dq, dr, roll) ==
    /\ current_planet' = current_planet + 1
    /\ IF current_planet + 1 > Len(planets)
       THEN LET last_center == planets[Len(planets)].center
                new_center == HexCoord(last_center[1] + dq, last_center[2] + dr)
            IN /\ planets' = Append(planets, PlanetNew(c, new_center, roll))
               /\ core_shard' = new_center
               /\ fields' = EmptyMap
               /\ ethereals' = EmptyMap
               /\ stasis_fields' = {}
               /\ core_slowed' = FALSE
       ELSE UNCHANGED <<planets, core_shard, fields, ethereals, stasis_fields,
                        core_slowed>>

\* jump_to_next_planet rebuilding the planet it leaves
jump_to_next_planet_rebuild(c, dq, dr, roll) ==
    /\ current_planet' = current_planet + 1
    /\ IF current_planet + 1 >= Len(planets)
       THEN LET last_center == planets[Len(planets)].center
                new_center == HexCoord(last_center[1] + dq, last_center[2] + dr)
                rebuilt == [planets EXCEPT
                               ![Len(planets)] = PlanetNew(c, last_center, roll)]
            IN /\ planets' = Append(rebuilt, PlanetNew(c, new_center, roll))
               /\ core_shard' = new_center
               /\ fields' = EmptyMap
               /\ ethereals' = EmptyMap
               /\ stasis_fields' = {}
               /\ core_slowed' = FALSE
       ELSE UNCHANGED <<planets, core_shard, fields, ethereals, stasis_fields,
                        core_slowed>>

\* jump_to_next_planet without fields.clear()
jump_to_next_planet_keep_fields(c, dq, dr, roll) ==
    /\ current_planet' = current_planet + 1
    /\ IF current_planet + 1 >= Len(planets)
       THEN LET last_center == planets[Len(planets)].center
                new_center == HexCoord(last_center[1] + dq, last_center[2] + dr)
            IN /\ planets' = Append(planets, PlanetNew(c, new_center, roll))
               /\ core_shard' = new_center
               /\ fields' = fields
               /\ ethereals' = EmptyMap
               /\ stasis_fields' = {}
               /\ core_slowed' = FALSE
       ELSE UNCHANGED <<planets, core_shard, fields, ethereals, stasis_fields,
                        core_slowed>>

\* jump_to_next_planet leaving the hostile map as it is
jump_to_next_planet_keep_hostiles(c, dq, dr, roll) ==
    /\ current_planet' = current_planet + 1
    /\ IF current_planet + 1 >= Len(planets)
       THEN LET last_center == planets[Len(planets)].center
                new_center == HexCoord(last_center[1] + dq, last_center[2] + dr)
            IN /\ planets' = Append(planets, PlanetNew(c, new_center, roll))
               /\ core_shard' = new_center
               /\ fields' = EmptyMap
               /\ ethereals' = ethereals
               /\ stasis_fields' = {}
               /\ core_slowed' = FALSE
       ELSE UNCHANGED <<planets, core_shard, fields, ethereals, stasis_fields,
                        core_slowed>>

\* jump_to_next_planet, called with self.cycle already incremented to c;
\* dq, dr and roll are its draws and that of Planet::new
jump_to_next_planet(c, dq, dr, roll) ==
    /\ current_planet' = current_planet + 1
    /\ IF current_planet + 1 >= Len(planets)
       THEN LET last_center == planets[Len(planets)].center
                new_center == HexCoord(last_center[1] + dq, last_center[2] + dr)
            IN /\ planets' = Append(planets, PlanetNew(c, new_center, roll))
               /\ core_shard' = new_center
               /\ fields' = EmptyMap
               /\ ethereals' = EmptyMap
               /\ stasis_fields' = {}
               /\ core_slowed' = FALSE
       ELSE UNCHANGED <<planets, core_shard, fields, ethereals, stasis_fields,
                        core_slowed>>

\* the gate with a strict comparison
CycleGate_strict(dissolved, c) == dissolved > c * 3

\* if self.foes_dissolved >= self.cycle * 3
CycleGate(dissolved, c) == dissolved >= c * 3

\* the victory test one cycle late
IsVictory_late(c) == c > 16

\* if self.cycle > 15
IsVictory(c) == c > 15

\* the progression without its energy credit
CycleCredit_none(energy) == {energy}

\* self.rift_energy += rng.gen_range(50..=100)
CycleCredit(energy) == {energy + credit : credit \in gen_range(50, 100)}

check_cycle_progression ==
    /\ pc = "progress"
    /\ IF CycleGate(foes_dissolved, cycle)
       THEN /\ cycle' = cycle + 1
            /\ IF IsVictory(cycle + 1)
               THEN /\ pc' = "victory"
                    /\ UNCHANGED <<fields, ethereals, stasis_fields, planets,
                                   current_planet, core_shard, rift_energy, core_slowed>>
               ELSE /\ \E dq \in gen_range(2, 4), dr \in gen_range(-2, 2),
                          roll \in gen_range(1, 3) :
                          jump_to_next_planet(cycle + 1, dq, dr, roll)
                    /\ rift_energy' \in CycleCredit(rift_energy)
                    /\ pc' = "loop"
       ELSE /\ pc' = "loop"
            /\ UNCHANGED game
    /\ UNCHANGED <<foes_dissolved, budgets, intent, locals>>
    /\ UNCHANGED units

\* ---------------------------------------------------------- specification
Next ==
    \/ GameOver
    \/ LoopHead
    \/ Quit
    \/ CoreCmd
    \/ DeployCmd
    \/ InvalidCmd
    \/ UpdateCore
    \/ UpdateField
    \/ UpdateRemove
    \/ UpdateEthereal
    \/ UpdateMoves
    \/ UpdateEffect
    \/ check_cycle_progression

Spec == Init /\ [][Next]_vars

\* ------------------------------------------------------- mid-game starts
\* States of the RiftRunner at the head of the main loop other than the one
\* RiftRunner::new builds, from which runs are explored as well.

\* cycle 1 after two commands and one dissolve: "p 1 -1" (cost 14) in an
\* iteration whose spawn put a hostile on (1,0) that the new field dissolved,
\* then "p 0 1" (cost 14) in an iteration without a spawn
PulsePairBoard(roll) ==
    [ fields         |-> (HexCoord(1, -1) :> 1) @@ (HexCoord(0, 1) :> 1),
      ethereals      |-> EmptyMap,
      stasis_fields  |-> {},
      planets        |-> << PlanetNew(1, HexCoord(0, 0), roll) >>,
      current_planet |-> 0,
      core_shard     |-> HexCoord(0, 0),
      rift_energy    |-> 22,
      cycle          |-> 1,
      foes_dissolved |-> 1,
      core_slowed    |-> FALSE ]

\* the state check_cycle_progression leaves when it enters cycle c with
\* `dissolved` hostiles counted: c planets, each created by
\* jump_to_next_planet with the draws dq = 2, dr = -2, roll = 1
FreshPlanetBoard(c, dissolved, energy) ==
    [ fields         |-> EmptyMap,
      ethereals      |-> EmptyMap,
      stasis_fields  |-> {},
      planets        |-> [k \in 1..c |-> PlanetNew(k, HexCoord(2 * (k - 1), -2 * (k - 1)), 1)],
      current_planet |-> c - 1,
      core_shard     |-> HexCoord(2 * (c - 1), -2 * (c - 1)),
      rift_energy    |-> energy,
      cycle          |-> c,
      foes_dissolved |-> dissolved,
      core_slowed    |-> FALSE ]

\* the pulse pair board, the arrivals on the first Staregazers planets
\* (cycle 6, where spawn_chance is 1, and cycle 7, where it is above 1) and
\* the arrival on the last planet with the gate of cycle 15 already met
Boards ==
    {PulsePairBoard(roll) : roll \in gen_range(1, 3)}
    \cup {FreshPlanetBoard(6, 15, 100), FreshPlanetBoard(7, 18, 100)}
    \cup {FreshPlanetBoard(15, 45, 100)}

InitBoards ==
    /\ \E b \in Boards :
          /\ fields = b.fields
          /\ ethereals = b.ethereals
          /\ stasis_fields = b.stasis_fields
          /\ planets = b.planets
          /\ current_planet = b.current_planet
          /\ core_shard = b.core_shard
          /\ rift_energy = b.rift_energy
          /\ cycle = b.cycle
          /\ foes_dissolved = b.foes_dissolved
          /\ core_slowed = b.core_slowed
    /\ pc = "loop"
    /\ commands = 0
    /\ spawns = 0
    /\ luck = 0
    /\ intent = NoIntent
    /\ field_iter = {}
    /\ eth_iter = {}
    /\ to_remove = << >>
    /\ fields_to_corrode = << >>
    /\ ethereal_moves = << >>
    /\ pulse_radius = 0
    /\ entropy_core = NoCore
    /\ hex_call = NoCall

SpecBoards == InitBoards /\ [][Next]_vars

\* the game state and the locals of main and update at rest on board b
AtRest(b) ==
    /\ fields = b.fields
    /\ ethereals = b.ethereals
    /\ stasis_fields = b.stasis_fields
    /\ planets = b.planets
    /\ current_planet = b.current_planet
    /\ core_shard = b.core_shard
    /\ rift_energy = b.rift_energy
    /\ cycle = b.cycle
    /\ foes_dissolved = b.foes_dissolved
    /\ core_slowed = b.core_slowed
    /\ commands = 0
    /\ spawns = 0
    /\ luck = 0
    /\ intent = NoIntent
    /\ field_iter = {}
    /\ eth_iter = {}
    /\ to_remove = << >>
    /\ fields_to_corrode = << >>
    /\ ethereal_moves = << >>
    /\ pulse_radius = 0

\* ------------------------------------------------------ tactical boards
\* cycle 1 with a weave field on the planet's center: "w 0 0" (cost 41) typed
\* in the first iteration, the core shard moved to (1,0) in the tick that
\* followed, then a spawn put a hostile on (-1,0), which the field keeps from
\* coming closer
SiegeBoard ==
    [ fields         |-> (HexCoord(0, 0) :> 3),
      ethereals      |-> (HexCoord(-1, 0) :> 2),
      stasis_fields  |-> {},
      planets        |-> << PlanetNew(1, HexCoord(0, 0), 2) >>,
      current_planet |-> 0,
      core_shard     |-> HexCoord(1, 0),
      rift_energy    |-> 9,
      cycle          |-> 1,
      foes_dissolved |-> 0,
      core_slowed    |-> FALSE ]

\* cycle 1 with a weave field on the core shard's own hex: "w 0 0" (cost 41)
\* typed in the first iteration, then a spawn put a hostile on (1,0), which
\* the field keeps from entering the core shard's hex
GuardBoard ==
    [ fields         |-> (HexCoord(0, 0) :> 3),
      ethereals      |-> (HexCoord(1, 0) :> 2),
      stasis_fields  |-> {},
      planets        |-> << PlanetNew(1, HexCoord(0, 0), 2) >>,
      current_planet |-> 0,
      core_shard     |-> HexCoord(0, 0),
      rift_energy    |-> 9,
      cycle          |-> 1,
      foes_dissolved |-> 0,
      core_slowed    |-> FALSE ]

\* cycle 2, entered with 3 hostiles counted and rift_energy 122, after
\* "t 3 -2" (cost 66) put a temporal field next to the center of planet 2 and
\* the field, with no hostile in range, marked its first on-planet neighbor:
\* the center, where the core shard is
TemporalBoard ==
    [FreshPlanetBoard(2, 3, 56) EXCEPT
        !.fields = (HexCoord(3, -2) :> 4),
        !.stasis_fields = {HexCoord(2, -2)}]

\* cycle 2 as on the temporal board, before any marker, with "p 1 -2"
\* (cost 16) typed too: a pulse field and a temporal field on either side of
\* the center
RelayBoard ==
    [FreshPlanetBoard(2, 3, 40) EXCEPT
        !.fields = (HexCoord(3, -2) :> 4) @@ (HexCoord(1, -2) :> 1)]

\* cycle 1 one dissolve short of the gate: the core shard has moved to (-1,0)
\* and four pulse fields surround the planet's center, the first hex a spawn
\* scans
OvershootBoard ==
    [ fields         |-> (HexCoord(1, 0) :> 1) @@ (HexCoord(0, 1) :> 1)
                         @@ (HexCoord(0, -1) :> 1) @@ (HexCoord(1, -1) :> 1),
      ethereals      |-> EmptyMap,
      stasis_fields  |-> {},
      planets        |-> << PlanetNew(1, HexCoord(0, 0), 1) >>,
      current_planet |-> 0,
      core_shard     |-> HexCoord(-1, 0),
      rift_energy    |-> 4,
      cycle          |-> 1,
      foes_dissolved |-> 2,
      core_slowed    |-> FALSE ]

\* cycle 1 one dissolve short of the gate: the core shard has moved to (-1,0),
\* a hostile that the pulse field on (1,0) left with essence 1 has come from
\* (0,1) to (-1,1), next to the core shard
LastStandBoard ==
    [ fields         |-> (HexCoord(1, 0) :> 1),
      ethereals      |-> (HexCoord(-1, 1) :> 1),
      stasis_fields  |-> {},
      planets        |-> << PlanetNew(1, HexCoord(0, 0), 1) >>,
      current_planet |-> 0,
      core_shard     |-> HexCoord(-1, 0),
      rift_energy    |-> 33,
      cycle          |-> 1,
      foes_dissolved |-> 2,
      core_slowed    |-> FALSE ]

TacticalBoards == {SiegeBoard, GuardBoard, TemporalBoard, RelayBoard, LastStandBoard}

InitTactics ==
    /\ \E b \in TacticalBoards : AtRest(b)
    /\ pc = "loop"
    /\ entropy_core = NoCore
    /\ hex_call = NoCall

SpecTactics == InitTactics /\ [][Next]_vars

\* the run from the board with the four pulse fields
InitGate ==
    /\ AtRest(OvershootBoard)
    /\ pc = "loop"
    /\ entropy_core = NoCore
    /\ hex_call = NoCall

SpecGate == InitGate /\ [][Next]_vars

\* ------------------------------------------------ EntropyCore on its own
\* One EntropyCore instance played repeatedly, as EntropyCore::play allows
\* (main plays each instance once).

\* slot contents EntropyCore::new can draw, among them one with a single pair,
\* one with two pairs, one without a pair and one with all slots equal
Quanta ==
    { <<"alpha", "beta", "alpha", "gamma", "delta">>,
      <<"alpha", "alpha", "beta", "beta", "gamma">>,
      <<"alpha", "beta", "gamma", "delta", "omega">>,
      <<"omega", "omega", "omega", "omega", "omega">> }

\* the lines typed at the prompt of play: "skip", a line that is not two
\* words, and "idx1 idx2" (an index of 5 stands for a word that is no number)
PlayInputs ==
    { [kind |-> "skip", idx1 |-> 5, idx2 |-> 5],
      [kind |-> "malformed", idx1 |-> 5, idx2 |-> 5] }
    \cup { [kind |-> "pair", idx1 |-> i, idx2 |-> j] : i \in Indices, j \in Indices }

\* EntropyCore::play on one line of input
play_line(quanta, input) ==
    IF input.kind = "pair"
    THEN play(quanta, input.idx1, input.idx2)
    ELSE {[quanta |-> quanta, energy |-> 0]}

InitEntropyCore ==
    /\ AtRest(FreshPlanetBoard(1, 0, 50))
    /\ pc = "minigame"
    /\ \E quanta \in Quanta \cap EntropyCoreNew :
          entropy_core = [NoCore EXCEPT !.quanta = quanta]
    /\ hex_call = NoCall

\* core.play()
PlayCore ==
    /\ pc = "minigame"
    /\ events < MaxEvents
    /\ commands' = commands + 1
    /\ \E input \in PlayInputs :
          \E res \in play_line(entropy_core.quanta, input) :
             entropy_core' = [quanta |-> res.quanta, input |-> input,
                              energy |-> res.energy]
    /\ UNCHANGED <<game, locals, pc, spawns, luck, intent, hex_call>>

NextEntropyCore == PlayCore

SpecEntropyCore == InitEntropyCore /\ [][NextEntropyCore]_vars

\* --------------------------------------------------- HexCoord on its own
\* the coordinates the methods are called with
Coords == {HexCoord(q, r) : q \in -MaxCoord..MaxCoord, r \in -MaxCoord..MaxCoord}

InitHexCoord ==
    /\ AtRest(FreshPlanetBoard(1, 0, 50))
    /\ pc = "hex"
    /\ entropy_core = NoCore
    /\ \E a \in Coords, b \in Coords : hex_call = [NoCall EXCEPT !.a = a, !.b = b]

\* a.distance(&b), b.distance(&a), a.distance(&a)
CallDistance ==
    /\ pc = "hex"
    /\ hex_call' = [hex_call EXCEPT !.dist_ab = distance(hex_call.a, hex_call.b),
                                    !.dist_ba = distance(hex_call.b, hex_call.a),
                                    !.dist_aa = distance(hex_call.a, hex_call.a)]
    /\ pc' = "hex_distance"
    /\ UNCHANGED <<game, locals, budgets, intent, entropy_core>>

\* a.neighbors()
CallNeighbors ==
    /\ pc = "hex_distance"
    /\ hex_call' = [hex_call EXCEPT !.nbrs = neighbors(hex_call.a)]
    /\ pc' = "hex_done"
    /\ UNCHANGED <<game, locals, budgets, intent, entropy_core>>

NextHexCoord ==
    \/ CallDistance
    \/ CallNeighbors

SpecHexCoord == InitHexCoord /\ [][NextHexCoord]_vars

\* =============================================================== claims

\* C1: deploy_field(q, r, kind) is applied if and only if rift_energy >= cost
\* (the cost drawn for the call), the target hex holds no field and the target
\* hex is in the current planet's hex set; when applied, rift_energy decreases
\* by exactly that cost, the hex held no field before and holds a field of the
\* requested kind after.
C1_DeployAppliedIff ==
    [][ (pc = "command" /\ intent'.op = "deploy") =>
           LET coord == HexCoord(intent'.q, intent'.r)
               allowed == /\ rift_energy >= intent'.cost
                          /\ coord \notin DOMAIN fields
                          /\ coord \in Range(planets[current_planet + 1].hexes)
               applied == fields' # fields \/ rift_energy' # rift_energy
           IN /\ applied <=> allowed
              /\ applied => /\ rift_energy' = rift_energy - intent'.cost
                            /\ coord \notin DOMAIN fields
                            /\ coord \in DOMAIN fields'
                            /\ fields'[coord] = intent'.field_type ]_vars

\* a deploy command has just been applied on a planet that already holds fields
C1_Deployed ==
    /\ pc = "core"
    /\ intent.op = "deploy"
    /\ rift_energy = intent.energy - intent.cost
    /\ HexCoord(intent.q, intent.r) \in DOMAIN fields
    /\ fields[HexCoord(intent.q, intent.r)] = intent.field_type
    /\ Cardinality(DOMAIN fields) = 3

\* C2: a rejected deploy_field call (insufficient energy, hex already holding
\* a field, or hex off the current planet) leaves fields, hostiles, stasis
\* markers, core shard, rift_energy, cycle, dissolved_count, core_slowed,
\* planets and the current planet index unchanged.
C2_RejectedDeployChangesNothing ==
    [][ (pc = "command" /\ intent'.op = "deploy") =>
           LET coord == HexCoord(intent'.q, intent'.r)
               allowed == /\ rift_energy >= intent'.cost
                          /\ coord \notin DOMAIN fields
                          /\ coord \in Range(planets[current_planet + 1].hexes)
           IN ~allowed =>
                 /\ fields' = fields
                 /\ ethereals' = ethereals
                 /\ stasis_fields' = stasis_fields
                 /\ core_shard' = core_shard
                 /\ rift_energy' = rift_energy
                 /\ cycle' = cycle
                 /\ foes_dissolved' = foes_dissolved
                 /\ core_slowed' = core_slowed
                 /\ planets' = planets
                 /\ current_planet' = current_planet ]_vars

\* a deploy command on an occupied hex of the planet, with energy to pay for
\* it, has just been rejected
C2_RejectedOccupied ==
    /\ pc = "core"
    /\ intent.op = "deploy"
    /\ intent.energy >= intent.cost
    /\ HexCoord(intent.q, intent.r) \in DOMAIN fields
    /\ fields[HexCoord(intent.q, intent.r)] # intent.field_type
    /\ rift_energy = intent.energy

\* C3: no hex simultaneously holds a field and a hostile, and no field lies on
\* the core shard's hex.
C3_Occupancy ==
    /\ \A hex \in DOMAIN fields : hex \notin DOMAIN ethereals
    /\ core_shard \notin DOMAIN fields

\* C4 as claimed: from the start state (cycle 1, rift_energy 50, core at (0,0),
\* no fields, no hostiles) deploying a Pulse field at (1,0) succeeds with a
\* cost in 15 +/- 3, i.e. in [12,18]; afterwards rift_energy = 50 - cost and
\* fields[(1,0)] = Pulse.
C4_PulseCostAsClaimed ==
    [][ ( /\ pc = "command"
          /\ cycle = 1 /\ rift_energy = 50 /\ core_shard = HexCoord(0, 0)
          /\ DOMAIN fields = {} /\ DOMAIN ethereals = {}
          /\ intent'.op = "deploy"
          /\ intent'.q = 1 /\ intent'.r = 0 /\ intent'.field_type = 1 ) =>
           /\ intent'.cost \in 12..18
           /\ rift_energy' = 50 - intent'.cost
           /\ HexCoord(1, 0) \in DOMAIN fields'
           /\ fields'[HexCoord(1, 0)] = 1 ]_vars

\* C4: from the start state (cycle 1, rift_energy 50, core at (0,0), no fields,
\* no hostiles) deploying a Pulse field at (1,0) succeeds with a cost in
\* 17 +/- 3, i.e. in [14,20]; afterwards rift_energy = 50 - cost and
\* fields[(1,0)] = Pulse.
C4_PulseCost ==
    [][ ( /\ pc = "command"
          /\ cycle = 1 /\ rift_energy = 50 /\ core_shard = HexCoord(0, 0)
          /\ DOMAIN fields = {} /\ DOMAIN ethereals = {}
          /\ intent'.op = "deploy"
          /\ intent'.q = 1 /\ intent'.r = 0 /\ intent'.field_type = 1 ) =>
           /\ intent'.cost \in 14..20
           /\ rift_energy' = 50 - intent'.cost
           /\ HexCoord(1, 0) \in DOMAIN fields'
           /\ fields'[HexCoord(1, 0)] = 1 ]_vars

\* the Pulse field has just been deployed at (1,0) from the start state
C4_PulseDeployed ==
    /\ pc = "core"
    /\ intent.op = "deploy" /\ intent.q = 1 /\ intent.r = 0 /\ intent.field_type = 1
    /\ intent.energy = 50
    /\ cycle = 1 /\ core_shard = HexCoord(0, 0) /\ DOMAIN ethereals = {}
    /\ DOMAIN fields = {HexCoord(1, 0)}
    /\ rift_energy = 50 - intent.cost

\* C5: in the field-resolution phase of a tick the increase of dissolved_count
\* equals the number of distinct hostiles removed from the hostile map, also
\* when several fields bring the same hostile's essence to <= 0.
C5_DissolvedOncePerHostile ==
    [][ (pc = "fields" /\ pc' = "ethereals") =>
           foes_dissolved' - foes_dissolved =
              Cardinality((DOMAIN ethereals) \ (DOMAIN ethereals')) ]_vars

\* C6: a Pulse field that draws radius d damages (by 1..4) every hostile whose
\* hex-distance to the field is <= d; a hostile with essence 1 at distance 2
\* from a Pulse field that draws radius 2 is queued for removal by that visit.
\* (Stated for hostiles on a hex other than the field's own.)
C6_PulseReachesRadius ==
    [][ (pc = "fields" /\ pc' = "fields" /\ pulse_radius' > 0) =>
           \A coord \in field_iter \ field_iter' :
              \A hex \in DOMAIN ethereals :
                 (hex # coord /\ distance(hex, coord) <= pulse_radius') =>
                    /\ hex \in DOMAIN ethereals'
                    /\ ethereals[hex] - ethereals'[hex] \in 1..4
                    /\ ethereals[hex] = 1 => hex \in Range(to_remove') ]_vars

\* C7: dissolved_count never decreases across a deploy, a spawn event, a tick
\* or a planet reset.
C7_DissolvedMonotone == [][foes_dissolved' >= foes_dissolved]_vars

\* the counter has grown and was carried over a planet reset
C7_DissolvedCarried ==
    /\ cycle = 2
    /\ current_planet = 1
    /\ foes_dissolved = 3

\* C8: in every tick cycle is incremented if and only if
\* dissolved_count >= cycle * 3 holds when the progression check runs; cycle
\* increases by at most 1 per tick, never decreases, and no other operation
\* changes it.
C8_CycleGate ==
    [][ IF pc = "progress"
        THEN /\ cycle' = cycle + 1 <=> foes_dissolved >= cycle * 3
             /\ cycle' \in {cycle, cycle + 1}
        ELSE cycle' = cycle ]_vars

\* the progression check has just advanced the cycle at the exact threshold
C8_GatePassed ==
    /\ pc = "loop"
    /\ cycle = 2
    /\ foes_dissolved = 3

\* C9: when the progression check raises cycle above 15 the run enters the
\* terminal Victory state at once, without planet creation or reset, without
\* change to fields, hostiles, stasis markers or core shard and without energy
\* credit; in every non-terminal state 1 <= cycle <= 15; nothing runs after
\* Victory.
C9_Victory ==
    /\ [](pc \notin {"victory", "game_over", "quit", "panic"} => cycle \in 1..15)
    /\ [][ /\ (pc = "progress" /\ cycle' > 15) =>
                /\ pc' = "victory"
                /\ planets' = planets
                /\ current_planet' = current_planet
                /\ fields' = fields
                /\ ethereals' = ethereals
                /\ stasis_fields' = stasis_fields
                /\ core_shard' = core_shard
                /\ core_slowed' = core_slowed
                /\ rift_energy' = rift_energy
           /\ pc # "victory" ]_vars

\* the run has ended in Victory
C9_VictoryReached ==
    /\ pc = "victory"
    /\ cycle = 16
    /\ Len(planets) = 15

\* C10: whenever the progression check advances cycle to a value <= 15, a new
\* planet is appended, the current planet index becomes its index, fields,
\* hostiles and stasis markers become empty, core_slowed becomes false and the
\* core shard is placed on the new planet's center; with dissolved_count = 3
\* and cycle = 1 progression yields cycle = 2 with this reset.
C10_PlanetReset ==
    [][ /\ (pc = "progress" /\ cycle' = cycle + 1 /\ cycle' <= 15) =>
             /\ Len(planets') = Len(planets) + 1
             /\ \A k \in 1..Len(planets) : planets'[k] = planets[k]
             /\ current_planet' + 1 = Len(planets')
             /\ DOMAIN fields' = {}
             /\ DOMAIN ethereals' = {}
             /\ stasis_fields' = {}
             /\ core_slowed' = FALSE
             /\ core_shard' = planets'[Len(planets')].center
        /\ (pc = "progress" /\ foes_dissolved = 3 /\ cycle = 1) => cycle' = 2 ]_vars

\* the planet holding the two pulse fields has just been left for planet 2
C10_ResetDone ==
    /\ pc = "loop"
    /\ cycle = 2
    /\ Len(planets) = 2
    /\ current_planet = 1
    /\ DOMAIN fields = {}
    /\ core_shard = planets[2].center
    /\ commands = 0

\* C11: a cycle advancement to a cycle <= 15 leaves dissolved_count unchanged
\* and credits rift_energy exactly once by an amount in [50,100]; a progression
\* check that does not advance the cycle leaves rift_energy unchanged.
C11_AdvanceCredit ==
    [][ pc = "progress" =>
           /\ (cycle' = cycle + 1 /\ cycle' <= 15) =>
                 /\ foes_dissolved' = foes_dissolved
                 /\ rift_energy' - rift_energy \in 50..100
           /\ cycle' = cycle =>
                 /\ foes_dissolved' = foes_dissolved
                 /\ rift_energy' = rift_energy ]_vars

\* the pulse pair board (rift_energy 22) was left for planet 2 with a credit
\* of 100 and no other change of energy
C11_Credited ==
    /\ pc = "loop"
    /\ cycle = 2
    /\ foes_dissolved = 3
    /\ rift_energy = 122
    /\ commands = 0 /\ luck = 0

\* C12: when a hostile occupies the core shard's hex at the loss check that
\* follows a tick, the check reports Loss, leaves the game state as it is, and
\* no player intent, spawn event or tick is executed afterwards; when no
\* hostile occupies the core shard's hex the loss check does not report Loss.
C12_LossCheck ==
    [][ /\ pc = "loop" =>
             IF core_shard \in DOMAIN ethereals
             THEN /\ pc' = "game_over"
                  /\ fields' = fields /\ ethereals' = ethereals
                  /\ stasis_fields' = stasis_fields /\ planets' = planets
                  /\ current_planet' = current_planet /\ core_shard' = core_shard
                  /\ rift_energy' = rift_energy /\ cycle' = cycle
                  /\ foes_dissolved' = foes_dissolved /\ core_slowed' = core_slowed
                  /\ commands' = commands /\ spawns' = spawns /\ luck' = luck
             ELSE pc' # "game_over"
        /\ pc' = "game_over" => pc = "loop"
        /\ pc # "game_over" ]_vars

\* the run was lost on a hex the core shard had moved to
C12_Lost ==
    /\ pc = "game_over"
    /\ core_shard \in DOMAIN ethereals
    /\ core_shard # planets[current_planet + 1].center

\* C13: in every reachable state the planet list is non-empty and the current
\* planet index is a valid index into it.
C13_PlanetIndexValid ==
    /\ Len(planets) >= 1
    /\ current_planet \in 0..(Len(planets) - 1)

\* a command is awaited on the second planet, after the spawn event of that
\* iteration has read it
C13_OnSecondPlanet ==
    /\ pc = "command"
    /\ Len(planets) = 2
    /\ current_planet = 1
    /\ cycle = 2

\* C14: a hostile-spawn event never faults for any cycle in 1..15 (a spawn
\* probability above 1.0 behaves as certainty): no run ends in a fault.
C14_SpawnNeverFaults == pc # "panic"

\* C15: the hostile-movement phase of a tick conserves the number of hostiles
\* and the multiset of their essences (no hostile is moved onto the hex
\* another hostile is moved to in the same phase).
C15_MovementConserves ==
    [][ (pc = "ethereals" /\ pc' = "effect") =>
           /\ Cardinality(DOMAIN ethereals') = Cardinality(DOMAIN ethereals)
           /\ \A essence \in Range(ethereals) \cup Range(ethereals') :
                 Cardinality({hex \in DOMAIN ethereals' : ethereals'[hex] = essence})
                    = Cardinality({hex \in DOMAIN ethereals : ethereals[hex] = essence})
      ]_vars

\* C16: a play selecting two distinct indices in [0,5) whose slots carry the
\* same category tag returns an energy in [3,11]; a skip, a malformed line, an
\* out-of-range or equal-index selection, or a pair of slots with different
\* contents returns exactly 0 and changes no slot.
C16_PlayReward ==
    [][ pc = "minigame" =>
           LET quanta == entropy_core.quanta
               input  == entropy_core'.input
               energy == entropy_core'.energy
           IN IF /\ input.kind = "pair"
                 /\ input.idx1 \in 0..4 /\ input.idx2 \in 0..4
                 /\ input.idx1 # input.idx2
                 /\ quanta[input.idx1 + 1] = quanta[input.idx2 + 1]
              THEN quanta[input.idx1 + 1] \in Types => energy \in 3..11
              ELSE energy = 0 /\ entropy_core'.quanta = quanta ]_vars

\* the first play matched slots 0 and 2 of [alpha, beta, alpha, gamma, delta]
\* for the largest reward
C16_Rewarded ==
    /\ pc = "minigame"
    /\ commands = 1
    /\ entropy_core.input = [kind |-> "pair", idx1 |-> 0, idx2 |-> 2]
    /\ entropy_core.quanta = <<"XX", "beta", "XX", "gamma", "delta">>
    /\ entropy_core.energy = 11

\* C17: once two slots have been matched they are consumed: a later selection
\* on the same instance that includes a consumed slot returns 0.
C17_ConsumedYieldsNothing ==
    [][ ( /\ pc = "minigame"
          /\ entropy_core'.input.kind = "pair"
          /\ entropy_core'.input.idx1 \in 0..4
          /\ entropy_core'.input.idx2 \in 0..4
          /\ "XX" \in { entropy_core.quanta[entropy_core'.input.idx1 + 1],
                        entropy_core.quanta[entropy_core'.input.idx2 + 1] } )
        => entropy_core'.energy = 0 ]_vars

\* C18: for all HexCoord a, b in the bounded range distance(a,b) =
\* distance(b,a), distance(a,b) >= 0, distance(a,a) = 0, and the sum
\* |dq| + |dr| + |dq + dr| is even, so that the division by 2 is exact.
C18_DistanceSymmetric ==
    pc \in {"hex_distance", "hex_done"} =>
       LET dq  == hex_call.a[1] - hex_call.b[1]
           dr  == hex_call.a[2] - hex_call.b[2]
           sum == Abs(dq) + Abs(dr) + Abs(dq + dr)
       IN /\ hex_call.dist_ab = hex_call.dist_ba
          /\ hex_call.dist_ab >= 0
          /\ hex_call.dist_aa = 0
          /\ sum % 2 = 0
          /\ 2 * hex_call.dist_ab = sum

\* the distance of two coordinates that differ in q and in r has been taken
C18_DistanceTaken ==
    /\ pc = "hex_distance"
    /\ hex_call.a = HexCoord(1, -2)
    /\ hex_call.b = HexCoord(-1, 0)
    /\ hex_call.dist_ab = 2
    /\ hex_call.dist_ba = 2

\* C19: for every HexCoord a, neighbors(a) returns exactly 6 pairwise distinct
\* coordinates in the order (q+1,r), (q-1,r), (q,r+1), (q,r-1), (q+1,r-1),
\* (q-1,r+1), each at distance exactly 1 from a, and every coordinate at
\* distance 1 from a is among them.
C19_NeighborsClosure ==
    pc = "hex_done" =>
       LET a == hex_call.a
           nbrs == hex_call.nbrs
       IN /\ Len(nbrs) = 6
          /\ nbrs = << <<a[1] + 1, a[2]>>, <<a[1] - 1, a[2]>>, <<a[1], a[2] + 1>>,
                       <<a[1], a[2] - 1>>, <<a[1] + 1, a[2] - 1>>,
                       <<a[1] - 1, a[2] + 1>> >>
          /\ \A i \in 1..6, j \in 1..6 : i # j => nbrs[i] # nbrs[j]
          /\ \A i \in 1..6 : distance(a, nbrs[i]) = 1
          /\ \A q \in (a[1] - 2)..(a[1] + 2), r \in (a[2] - 2)..(a[2] + 2) :
                distance(a, <<q, r>>) = 1 => <<q, r>> \in Range(nbrs)

\* the neighbors of a coordinate on the rim of the range have been listed
C19_NeighborsListed ==
    /\ pc = "hex_done"
    /\ hex_call.a = HexCoord(2, -2)
    /\ Len(hex_call.nbrs) = 6
    /\ hex_call.nbrs[5] = HexCoord(3, -3)

\* C20: no step removes or modifies an existing planet; the planet list grows
\* only by one planet appended per cycle advancement (to a cycle <= 15), and
\* the current planet index changes only by increasing by exactly 1, together
\* with that append.
C20_PlanetsAppendOnly ==
    [][ /\ Len(planets') \in {Len(planets), Len(planets) + 1}
        /\ \A k \in 1..Len(planets) : planets'[k] = planets[k]
        /\ Len(planets') = Len(planets) + 1
              <=> (pc = "progress" /\ cycle' = cycle + 1 /\ cycle' <= 15)
        /\ current_planet' \in {current_planet, current_planet + 1}
        /\ current_planet' = current_planet + 1
              <=> Len(planets') = Len(planets) + 1 ]_vars

\* a tick runs on the second planet while the first planet, created with
\* base strength 3, is still in the list as it was
C20_FirstPlanetKept ==
    /\ pc = "effect"
    /\ Len(planets) = 2
    /\ current_planet = 1
    /\ planets[1] = PlanetNew(1, HexCoord(0, 0), 3)
    /\ planets[2].foe_strength = 2

\* C21: when the main spawn of a spawn event creates a hostile, the hostile
\* is on the first hex, in the planet's hex order, that is field-free,
\* hostile-free and not the core shard's hex; the main spawn creates at most
\* one hostile and none when no hex qualifies.  (Stated for Gloopers planets,
\* where the spawn event has no ambush spawn.)
C21_SpawnAtFirstFreeHex ==
    [][ ( /\ pc = "loop"
          /\ spawns' = spawns + 1
          /\ pc' = "command"
          /\ planets[current_planet + 1].foe_type = "Gloopers" ) =>
           LET hexes == planets[current_planet + 1].hexes
               qualifying == {i \in 1..Len(hexes) :
                                /\ hexes[i] \notin DOMAIN fields
                                /\ hexes[i] \notin DOMAIN ethereals
                                /\ hexes[i] # core_shard}
               new == (DOMAIN ethereals') \ (DOMAIN ethereals)
           IN /\ Cardinality(new) <= 1
              /\ qualifying = {} => new = {}
              /\ new # {} =>
                    \E i \in qualifying :
                       /\ new = {hexes[i]}
                       /\ \A j \in qualifying : i <= j ]_vars

\* C22: a spawn event (main spawn and ambush spawn, from the main loop or from
\* a planet effect) keeps every existing hostile and its essence, and places
\* new hostiles only on hexes of the current planet that hold no field and
\* are not the core shard's hex; a spawn event at the head of the loop leaves
\* no hostile on the core shard's hex.
C22_SpawnRespectsOccupancy ==
    [][ (pc \in {"loop", "effect"}) =>
         ( /\ \A hex \in DOMAIN ethereals :
                 hex \in DOMAIN ethereals' /\ ethereals'[hex] = ethereals[hex]
           /\ \A hex \in (DOMAIN ethereals') \ (DOMAIN ethereals) :
                 /\ hex \notin DOMAIN fields
                 /\ hex # core_shard
                 /\ hex \in Range(planets[current_planet + 1].hexes)
           /\ ( (pc = "loop" /\ core_shard \notin DOMAIN ethereals) =>
                    (core_shard' \notin (DOMAIN ethereals')) ) ) ]_vars

\* on the cycle-6 planet, which holds a field, one spawn event has created two
\* hostiles
C22_TwoSpawned ==
    /\ pc = "command"
    /\ cycle = 6
    /\ spawns = 1
    /\ DOMAIN fields # {}
    /\ Cardinality(DOMAIN ethereals) = 2
    /\ core_shard \notin DOMAIN ethereals

\* C23: every hostile created by a spawn event has essence >= 1: the main
\* spawn gives base_strength + k with 0 <= k < cycle, the ambush spawn gives
\* base_strength + k with 1 <= k <= 3, where the current planet's
\* base_strength lies in [cycle, 3*cycle]; no ambush spawn happens on a
\* Gloopers planet.
C23_SpawnEssence ==
    [][ (pc \in {"loop", "effect"}) =>
           LET new    == (DOMAIN ethereals') \ (DOMAIN ethereals)
               base   == planets[current_planet + 1].foe_strength
               main   == base..(base + cycle - 1)
               ambush == (base + 1)..(base + 3)
           IN /\ base \in cycle..(3 * cycle)
              /\ \A hex \in new :
                    ethereals'[hex] >= 1 /\ ethereals'[hex] \in main \cup ambush
              /\ Cardinality(new) <= 2
              /\ Cardinality(new) = 2 =>
                    \E h1 \in new, h2 \in new :
                       h1 # h2 /\ ethereals'[h1] \in main /\ ethereals'[h2] \in ambush
              /\ planets[current_planet + 1].foe_type = "Gloopers" =>
                    /\ Cardinality(new) <= 1
                    /\ \A hex \in new : ethereals'[hex] \in main ]_vars

\* on the cycle-6 planet (base_strength 6) the main spawn drew k = 5 and the
\* ambush spawn k = 1
C23_BothEssences ==
    /\ pc = "command"
    /\ cycle = 6
    /\ planets[current_planet + 1].foe_strength = 6
    /\ \E h1 \in DOMAIN ethereals, h2 \in DOMAIN ethereals :
          ethereals[h1] = 11 /\ ethereals[h2] = 7

\* C24: the hostile scanned in a step of the hostile loop queues a move only
\* to the first neighbor, in the 6-direction order, whose distance to the core
\* shard is minimal among its on-planet, field-free neighbors, and only if
\* that distance is strictly smaller than its own; the queued destination is
\* exactly 1 closer to the core shard, on the planet, field-free and free of
\* hostiles at the time of the scan; such a hostile does queue its move unless
\* the destination is marked or holds a hostile.  When the queue is applied
\* every queued destination holds a hostile.
C24_MovementChoice ==
    [][ /\ ( (pc = "ethereals" /\ eth_iter # {}) =>
             \A coord \in eth_iter \ eth_iter' :
                LET ns     == neighbors(coord)
                    here   == distance(coord, core_shard)
                    open   == {i \in 1..6 :
                                 /\ ns[i] \in Range(planets[current_planet + 1].hexes)
                                 /\ ns[i] \notin DOMAIN fields}
                    best   == {i \in open : \A j \in open :
                                 distance(ns[i], core_shard) <= distance(ns[j], core_shard)}
                    chosen == {ns[i] : i \in {k \in best :
                                                /\ \A j \in best : k <= j
                                                /\ distance(ns[k], core_shard) < here}}
                    queued == {ethereal_moves'[k] :
                                 k \in (Len(ethereal_moves) + 1)..Len(ethereal_moves')}
                IN /\ Len(ethereal_moves') \in {Len(ethereal_moves), Len(ethereal_moves) + 1}
                   /\ SubSeq(ethereal_moves', 1, Len(ethereal_moves)) = ethereal_moves
                   /\ \A m \in queued :
                         /\ m.from = coord
                         /\ m.essence = ethereals[coord]
                         /\ m.to \in chosen
                         /\ distance(m.to, core_shard) = here - 1
                         /\ m.to \in Range(planets[current_planet + 1].hexes)
                         /\ m.to \notin DOMAIN fields
                         /\ m.to \notin DOMAIN ethereals
                   /\ \A n \in chosen :
                         (n \notin stasis_fields /\ n \notin DOMAIN ethereals) => queued # {} )
        /\ ( (pc = "ethereals" /\ eth_iter = {}) =>
             \A k \in 1..Len(ethereal_moves) :
                /\ ethereal_moves[k].to \in DOMAIN ethereals'
                /\ ethereal_moves[k].to \notin DOMAIN fields' )
      ]_vars

\* a move is queued whose destination ties with another open neighbor of the
\* hostile on the distance to the core shard
C24_TieBrokenByOrder ==
    /\ pc = "ethereals"
    /\ \E k \in 1..Len(ethereal_moves) :
          \E n \in Range(neighbors(ethereal_moves[k].from)) :
             /\ n # ethereal_moves[k].to
             /\ is_on_planet(n)
             /\ n \notin DOMAIN fields
             /\ distance(n, core_shard) = distance(ethereal_moves[k].to, core_shard)

\* C25: when the destination chosen by the hostile being scanned carries a
\* stasis marker, the step removes exactly that marker, queues no move and
\* leaves every hostile where it is; a scan step that chooses no marked
\* destination leaves the markers alone; markers disappear only in such a
\* scan step, one at a time, or in a planet reset.
C25_StasisPop ==
    [][ /\ ( (pc = "ethereals" /\ eth_iter # {}) =>
             \A coord \in eth_iter \ eth_iter' :
                LET ns     == neighbors(coord)
                    here   == distance(coord, core_shard)
                    open   == {i \in 1..6 :
                                 /\ ns[i] \in Range(planets[current_planet + 1].hexes)
                                 /\ ns[i] \notin DOMAIN fields}
                    best   == {i \in open : \A j \in open :
                                 distance(ns[i], core_shard) <= distance(ns[j], core_shard)}
                    chosen == {ns[i] : i \in {k \in best :
                                                /\ \A j \in best : k <= j
                                                /\ distance(ns[k], core_shard) < here}}
                IN /\ \A n \in chosen :
                         n \in stasis_fields =>
                            /\ stasis_fields' = stasis_fields \ {n}
                            /\ ethereal_moves' = ethereal_moves
                            /\ ethereals' = ethereals
                   /\ (chosen \cap stasis_fields = {}) => stasis_fields' = stasis_fields )
        /\ ( (stasis_fields \ stasis_fields' # {}) =>
             \/ pc = "ethereals" /\ Cardinality(stasis_fields \ stasis_fields') = 1
             \/ pc = "progress" /\ current_planet' # current_planet )
      ]_vars

\* every hostile has been scanned, one of them has an open, hostile-free,
\* unmarked neighbor closer to the core shard and yet no move is queued: the
\* marker it ran into is gone and the hostile is still in place
C25_Popped ==
    /\ pc = "ethereals"
    /\ eth_iter = {}
    /\ ethereal_moves = << >>
    /\ stasis_fields = {}
    /\ \E coord \in DOMAIN ethereals :
          LET next == MoveScan(coord, 1, coord, distance(coord, core_shard)) IN
          next # coord /\ next \notin DOMAIN ethereals

\* C26: while the hostile loop scans, no hostile and no field changes; every
\* field queued for corrosion is still a field, and no queued move leads to a
\* field or to a hex that holds a hostile; the moves and the corrosions are
\* applied in the one step that follows the scan.
C26_DeferredApplication ==
    [][ /\ ( (pc = "ethereals" /\ eth_iter # {}) =>
             /\ ethereals' = ethereals
             /\ fields' = fields
             /\ Range(fields_to_corrode') \subseteq DOMAIN fields
             /\ \A k \in 1..Len(ethereal_moves') :
                   /\ ethereal_moves'[k].to \notin DOMAIN fields
                   /\ ethereal_moves'[k].to \notin DOMAIN ethereals )
        /\ ( (pc = "ethereals" /\ eth_iter = {}) =>
             /\ DOMAIN fields' = (DOMAIN fields) \ Range(fields_to_corrode)
             /\ DOMAIN ethereals' =
                   ((DOMAIN ethereals) \ {ethereal_moves[k].from : k \in 1..Len(ethereal_moves)})
                   \cup {ethereal_moves[k].to : k \in 1..Len(ethereal_moves)} )
      ]_vars

\* the scan is over, a field is queued for corrosion, and a hostile that this
\* field alone keeps from coming closer has queued no move
C26_StillBlocked ==
    /\ pc = "ethereals"
    /\ eth_iter = {}
    /\ \E coord \in DOMAIN ethereals :
          /\ \A k \in 1..Len(ethereal_moves) : ethereal_moves[k].from # coord
          /\ \E n \in Range(neighbors(coord)) :
                /\ n \in Range(fields_to_corrode)
                /\ distance(n, core_shard) < distance(coord, core_shard)
          /\ \A n \in Range(neighbors(coord)) :
                (is_on_planet(n) /\ n \notin DOMAIN fields) =>
                   distance(n, core_shard) >= distance(coord, core_shard)

\* C27: the ranged attack of the hostile being scanned has at most one
\* outcome: it sets core_slowed, only with the core shard's hex among its
\* neighbors, or it queues one field; the queued field is the first neighbor
\* in scan order that holds a field, and the scan stops at that first field
\* whether or not the corrosion draw succeeds, so that nothing behind the first
\* field in scan order is affected.
C27_RangedAttack ==
    [][ (pc = "ethereals" /\ eth_iter # {}) =>
           \A coord \in eth_iter \ eth_iter' :
              LET ns       == neighbors(coord)
                  core     == {i \in 1..6 : ns[i] = core_shard}
                  held     == {i \in 1..6 : ns[i] \in DOMAIN fields /\ ns[i] # core_shard}
                  first    == {i \in held : \A j \in held : i <= j}
                  slowed   == ~core_slowed /\ core_slowed'
                  corroded == fields_to_corrode' # fields_to_corrode
              IN /\ ~(slowed /\ corroded)
                 /\ slowed => core # {}
                 /\ core_slowed => core_slowed'
                 /\ corroded => \E i \in first :
                                   fields_to_corrode' = Append(fields_to_corrode, ns[i])
                 /\ slowed => \A i \in first : \A c \in core : c < i
                 /\ corroded => \A i \in first : \A c \in core : i < c
      ]_vars

\* C28: a Weave field damages at most one hostile in a tick, by exactly 1, and
\* only in a tick in which it credited 10..25 rift_energy; the damaged hostile
\* is the first hostile in the planet's hex order.
C28_WeaveDisruptsFirstHostile ==
    [][ (pc = "fields" /\ field_iter # {}) =>
           \A coord \in field_iter \ field_iter' :
              fields[coord] = 3 =>
                 LET hexes   == planets[current_planet + 1].hexes
                     held    == {i \in 1..Len(hexes) : hexes[i] \in DOMAIN ethereals}
                     damaged == {h \in DOMAIN ethereals : ethereals'[h] # ethereals[h]}
                 IN /\ DOMAIN ethereals' = DOMAIN ethereals
                    /\ Cardinality(damaged) <= 1
                    /\ \A h \in damaged : ethereals'[h] = ethereals[h] - 1
                    /\ damaged # {} => (rift_energy' - rift_energy) \in 10..25
                    /\ \A h \in damaged :
                          \E i \in held : hexes[i] = h /\ \A j \in held : i <= j
      ]_vars

\* C29: a Temporal field relocates at most one hostile in a tick; the hostile
\* was within distance 2 of the field, keeps its essence and lands on a
\* neighbor of its hex that is on the planet, field-free and hostile-free; the
\* field adds at most one stasis marker, only when it relocated nothing, and
\* only on an unmarked on-planet neighbor of its own hex; it removes none.
C29_TemporalField ==
    [][ (pc = "fields" /\ field_iter # {}) =>
           \A coord \in field_iter \ field_iter' :
              fields[coord] = 4 =>
                 LET left   == (DOMAIN ethereals) \ (DOMAIN ethereals')
                     came   == (DOMAIN ethereals') \ (DOMAIN ethereals)
                     marked == stasis_fields' \ stasis_fields
                 IN /\ Cardinality(left) <= 1
                    /\ Cardinality(came) = Cardinality(left)
                    /\ \A h \in (DOMAIN ethereals) \cap (DOMAIN ethereals') :
                          ethereals'[h] = ethereals[h]
                    /\ \A e \in left : \A dest \in came :
                          /\ distance(e, coord) <= 2
                          /\ ethereals'[dest] = ethereals[e]
                          /\ dest \in Range(neighbors(e))
                          /\ dest \in Range(planets[current_planet + 1].hexes)
                          /\ dest \notin DOMAIN fields
                    /\ stasis_fields \subseteq stasis_fields'
                    /\ Cardinality(marked) <= 1
                    /\ marked # {} => left = {}
                    /\ \A n \in marked :
                          /\ n \in Range(neighbors(coord))
                          /\ n \in Range(planets[current_planet + 1].hexes)
      ]_vars

\* the field loop is over on a board with a temporal field and the only
\* hostile, spawned next to the core shard, has been relocated: to the core
\* shard's hex, which no hostile enters before the hostile phase otherwise
C29_Relocated ==
    /\ pc = "fields"
    /\ field_iter = {}
    /\ \E coord \in DOMAIN fields : fields[coord] = 4
    /\ Cardinality(DOMAIN ethereals) = 1
    /\ core_shard \in DOMAIN ethereals

\* C30: in the core phase the core shard stays or moves to one of its 6
\* neighbors that is on the planet, field-free and hostile-free; it stays when
\* core_slowed is set at the start of the phase; the phase never sets
\* core_slowed, and core_slowed is cleared only in the core phase or in a
\* planet reset.
C30_CoreMovement ==
    [][ /\ ( (pc = "core") =>
             /\ \/ core_shard' = core_shard
                \/ /\ core_shard' \in Range(neighbors(core_shard))
                   /\ core_shard' \in Range(planets[current_planet + 1].hexes)
                   /\ core_shard' \notin DOMAIN fields
                   /\ core_shard' \notin DOMAIN ethereals
             /\ core_slowed => core_shard' = core_shard
             /\ core_slowed' => core_slowed )
        /\ ( (core_slowed /\ ~core_slowed') =>
             \/ pc = "core"
             \/ pc = "progress" /\ current_planet' # current_planet )
      ]_vars

\* with a field under it and a hostile on its first neighbor, the core shard
\* has left the planet's center in the core phase
C30_MovedPastHostile ==
    /\ pc = "fields"
    /\ field_iter = DOMAIN fields
    /\ planets[current_planet + 1].center \in DOMAIN fields
    /\ neighbors(planets[current_planet + 1].center)[1] \in DOMAIN ethereals
    /\ core_shard \in Range(neighbors(planets[current_planet + 1].center))
    /\ events = 1
    /\ luck = 1

\* C31: when the Staregazers effect relocates a field it relocates one field,
\* with its kind, to a neighbor of its hex that is on the current planet and
\* holds no field, no hostile and not the core shard, and the other fields
\* stay as they are; the effect spawns a hostile only when it relocated no
\* field.
C31_StaregazersShift ==
    [][ (pc = "effect" /\ planets[current_planet + 1].foe_type = "Staregazers") =>
           /\ (fields' # fields =>
                 \E f \in DOMAIN fields : \E dest \in Range(neighbors(f)) :
                    /\ fields' = Insert(Remove(fields, f), dest, fields[f])
                    /\ Cardinality(DOMAIN fields') = Cardinality(DOMAIN fields)
                    /\ dest \in Range(planets[current_planet + 1].hexes)
                    /\ dest \notin DOMAIN fields
                    /\ dest \notin DOMAIN ethereals
                    /\ dest # core_shard)
           /\ (ethereals' # ethereals => fields' = fields)
           /\ (fields' # fields => pc' = "progress")
      ]_vars

\* C32: once the removals queued by the field phase have been applied, that
\* is in the hostile phase, in the planet effect, in the progression check and
\* at the tick boundary, every hostile in the hostile map has essence >= 1.
C32_NoDeadHostileLeft ==
    pc \in {"ethereals", "effect", "progress", "loop", "command"} =>
       \A hex \in DOMAIN ethereals : ethereals[hex] >= 1

\* C33: rift_energy is never negative, and a step lowers it only when it is
\* a deploy command that adds a field and debits the cost it quoted.
C33_EnergyNeverNegative ==
    [][ /\ rift_energy >= 0
        /\ rift_energy' >= 0
        /\ (rift_energy' < rift_energy =>
              /\ pc = "command"
              /\ intent'.op = "deploy"
              /\ rift_energy' = rift_energy - intent'.cost
              /\ HexCoord(intent'.q, intent'.r) \notin DOMAIN fields
              /\ fields' = Insert(fields, HexCoord(intent'.q, intent'.r),
                                  intent'.field_type))
      ]_vars

\* a deploy on a field-free hex of the planet has just been refused because
\* it cost more than the rift_energy left by an earlier deploy
C33_RefusedForEnergy ==
    /\ pc = "core"
    /\ intent.op = "deploy"
    /\ intent.cost > intent.energy
    /\ rift_energy = intent.energy
    /\ DOMAIN fields # {}
    /\ HexCoord(intent.q, intent.r) \notin DOMAIN fields
    /\ is_on_planet(HexCoord(intent.q, intent.r))

\* C34: in every state the core shard, every field, every hostile and every
\* stasis marker is on one of the 7 hexes of the current planet.
C34_Containment ==
    LET hexes == Range(planets[current_planet + 1].hexes) IN
    /\ Cardinality(hexes) = 7
    /\ core_shard \in hexes
    /\ DOMAIN fields \subseteq hexes
    /\ DOMAIN ethereals \subseteq hexes
    /\ stasis_fields \subseteq hexes

\* a field, a hostile and a stasis marker are on the planet and the core
\* shard has left the planet's center
C34_AllKindsPresent ==
    /\ DOMAIN fields # {}
    /\ DOMAIN ethereals # {}
    /\ stasis_fields # {}
    /\ core_shard # planets[current_planet + 1].center

\* C35: in every state but Victory the number of planets is cycle and the
\* current planet index is cycle - 1; the current planet's archetype is
\* Gloopers for cycle 1..5, Staregazers for 6..10, Eyekings for 11..15, and
\* its base_strength lies in [cycle, 3*cycle].
C35_PlanetOfTheCycle ==
    pc # "victory" =>
       /\ Len(planets) = cycle
       /\ current_planet = cycle - 1
       /\ planets[current_planet + 1].foe_type =
             (IF cycle \in 1..5 THEN "Gloopers"
              ELSE IF cycle \in 6..10 THEN "Staregazers" ELSE "Eyekings")
       /\ cycle \in 1..15
       /\ planets[current_planet + 1].foe_strength \in cycle..(3 * cycle)

\* the progression check has created the planet of cycle 2 with the roll 3
C35_SecondPlanet ==
    /\ pc = "loop"
    /\ cycle = 2
    /\ Len(planets) = 2
    /\ current_planet = 1
    /\ planets[2].foe_type = "Gloopers"
    /\ planets[2].foe_strength = 6

\* C36: a hostile comes to be on the core shard's hex only when the queued
\* hostile moves are applied: not by a Temporal relocation, not by a move of
\* the core shard, not by a spawn.
C36_CoreReachedOnlyByMovement ==
    [][ (core_shard' \in DOMAIN ethereals' /\ core_shard \notin DOMAIN ethereals) =>
           (pc = "ethereals" /\ eth_iter = {}) ]_vars

\* C37: at the end of every tick that does not end in Victory, that is
\* whenever the loop is back at its head, foes_dissolved < cycle * 3.
C37_GateClearedByAdvance ==
    pc = "loop" => foes_dissolved < cycle * 3

\* C38: the field map changes only in four ways: a deploy command adds one
\* field on a hex that held none; the corrosion loop removes fields that had a
\* hostile next to them; the Staregazers effect moves one field, with its
\* kind, to another hex; a planet reset empties the map.  Every field not
\* named in these keeps its hex and its kind.
C38_FieldPersistence ==
    [][ (fields' # fields) =>
           \/ /\ pc = "command"
              /\ \E hex \in (DOMAIN fields') \ (DOMAIN fields) :
                    fields' = Insert(fields, hex, fields'[hex])
           \/ /\ pc = "ethereals"
              /\ eth_iter = {}
              /\ DOMAIN fields' \subseteq DOMAIN fields
              /\ \A f \in DOMAIN fields' : fields'[f] = fields[f]
              /\ \A f \in (DOMAIN fields) \ (DOMAIN fields') :
                    \E h \in DOMAIN ethereals : f \in Range(neighbors(h))
           \/ /\ pc = "effect"
              /\ planets[current_planet + 1].foe_type = "Staregazers"
              /\ \E f \in DOMAIN fields : \E dest \in (DOMAIN fields') \ (DOMAIN fields) :
                    fields' = Insert(Remove(fields, f), dest, fields[f])
           \/ /\ pc = "progress"
              /\ current_planet' # current_planet
              /\ fields' = EmptyMap
      ]_vars

\* with no deploy typed, the temporal field of the relay board has been
\* corroded and the pulse field, which had no hostile next to it, is still
\* there
C38_PulseOutlivesTemporal ==
    /\ pc = "effect"
    /\ commands = 0
    /\ cycle = 2
    /\ DOMAIN ethereals # {}
    /\ DOMAIN fields # {}
    /\ \A f \in DOMAIN fields : fields[f] = 1

\* C39: when the progression check advances the cycle to a value <= 15 the
\* tick ends at the head of the loop with an empty hostile map, so with no
\* hostile on the core shard's hex, whatever the hostile map held before.
C39_AdvanceNeverLoses ==
    [][ (pc = "progress" /\ cycle' = cycle + 1 /\ cycle' <= 15) =>
           /\ pc' = "loop"
           /\ DOMAIN ethereals' = {}
           /\ core_shard' \notin DOMAIN ethereals' ]_vars

\* the progression check is about to advance the cycle in a tick in which a
\* hostile has moved onto the core shard's hex
C39_CoreTakenAtGate ==
    /\ pc = "progress"
    /\ core_shard \in DOMAIN ethereals
    /\ foes_dissolved >= cycle * 3
    /\ cycle < 15

====
